---- MODULE Spec2Model ----
(***************************************************************************)
(* A model of create_poster.py (GpxTrackPoster): the Track class with its  *)
(* content-addressed cache (load_gpx, load_gpx_no_cache, load_cache,       *)
(* store_cache, clear_cache), the loader pipeline load_tracks (load,       *)
(* filter, sort, merge, minimum-length filter), the grid layout            *)
(* compute_grid and the scaling of a track into its tile, draw_track.      *)
(*                                                                         *)
(* Four specifications share the module:                                   *)
(*   Spec       one run of load_tracks over a directory, step by step;     *)
(*   CacheSpec  sequences of load_gpx / clear_cache calls on one file,     *)
(*              with the cache file open to outside corruption;            *)
(*   GridSpec   compute_grid, one iteration of its scan per step;          *)
(*   DrawSpec   draw_track: projection and bounds, scale and offsets,      *)
(*              scaled points.                                             *)
(*                                                                         *)
(* Representation.                                                         *)
(*   datetime   <<s, us>>: whole seconds since 1970-01-01 00:00:00 and     *)
(*              microseconds, 0 <= us < 1000000; None is <<>>.             *)
(*   timedelta  <<s, us>> normalised the same way (0 <= us < 1000000).     *)
(*   float      lengths and coordinates are integer-valued here; the text  *)
(*              form json.dump writes for a finite float reads back as the *)
(*              same float, which FloatRepr / FloatParse state.            *)
(*   rational   the true divisions of compute_grid and draw_track are      *)
(*              exact fractions <<n, d>> with d > 0 (the rounding of       *)
(*              binary floats is not modelled).                            *)
(*   mercator   latlng2xy's y is tabulated to three decimals for the       *)
(*              latitudes of the model.                                    *)
(*   checksum   sha256 is taken to be collision free: the checksum of a    *)
(*              file is its content.                                       *)
(*   aliasing   load_tracks' lists hold references to Track objects; the   *)
(*              only object the merge pass mutates is merged_tracks[-1],   *)
(*              which the scan over sorted_tracks has already passed, so   *)
(*              the lists are modelled by value.                           *)
(***************************************************************************)
EXTENDS Integers, Sequences, FiniteSets, TLC

VARIABLES
    files,               \* load_tracks: file_names, the directory's .gpx files in listing order
    year,                \* load_tracks: the requested year
    highlight_filenames, \* load_tracks: the base names to highlight
    cache,               \* the cache directory: checksum -> cache file
    write_failures,      \* storage write failures the environment has produced so far
    writes,              \* what the storage did at each load_gpx call so far
    pc,                  \* position in the program
    index,               \* load_tracks: files loaded so far (the enumerate index)
    t,                   \* the Track of the last load_gpx call
    log,                 \* the lines printed for the last file
    parsed,              \* whether the last load_gpx call invoked gpxpy.parse
    tracks,              \* load_tracks: tracks
    sorted_tracks,       \* load_tracks: sorted_tracks
    merged_tracks,       \* load_tracks: merged_tracks
    merge_pos,           \* load_tracks: elements of sorted_tracks the merge loop has consumed
    last_end_time,       \* load_tracks: last_end_time
    result,              \* load_tracks: the returned list
    history,             \* CacheSpec: the cache operations carried out so far
    count,               \* compute_grid: count
    width,               \* compute_grid, draw_track: width
    height,              \* compute_grid, draw_track: height
    x,                   \* compute_grid: the last x of range(1, width) the scan has handled
    min_waste,           \* compute_grid: min_waste
    best_size,           \* compute_grid: best_size
    grid,                \* compute_grid: the returned tuple
    tile_origin,         \* draw_track: (x_offset, y_offset) as the caller passed them
    x_offset,            \* draw_track: x_offset
    y_offset,            \* draw_track: y_offset
    lines,               \* draw_track: lines, the projected polylines
    bounds,              \* draw_track: (min_x, min_y, max_x, max_y)
    scale,               \* draw_track: scale
    scaled_lines         \* draw_track: scaled_lines

loadVars == <<t, log, parsed>>

cacheVars == <<cache, write_failures, writes>>

pipelineVars == <<year, highlight_filenames, index, tracks, sorted_tracks, merged_tracks,
                  merge_pos, last_end_time, result>>

gridVars == <<count, width, height, x, min_waste, best_size, grid>>

drawVars == <<tile_origin, x_offset, y_offset, lines, bounds, scale, scaled_lines>>

vars == <<files, pc, loadVars, cacheVars, pipelineVars, history, gridVars, drawVars>>

-----------------------------------------------------------------------------
(* Bounds of the model. *)

\* Largest number of .gpx files in the directory.
MaxFiles == 3
\* Recordings start on an hour grid: slot k starts (k - 1) * 3600 s after the epoch.
MaxSlot == 3
\* Storage write failures the environment may produce during one run.
MaxWriteFailures == 1
\* Cache operations in one behaviour of CacheSpec.
MaxOps == 3
\* Largest arguments of compute_grid.
MaxCount == 6
MaxWidth == 5
MaxHeight == 4
\* draw_track: track points lie at latitude 30 * i and longitude 18 * j degrees
\* for i, j in 0..MaxCoord; the tile's width, height and offsets are at most MaxTile.
MaxCoord == 1
MaxTile == 2

-----------------------------------------------------------------------------
(* Sequence helpers. *)

Range(s) == {s[k] : k \in 1..Len(s)}

Last(s) == s[Len(s)]

Front(s) == SubSeq(s, 1, Len(s) - 1)

-----------------------------------------------------------------------------
(* datetime and timedelta. *)

None == <<>>

\* datetime.year, for instants in 1969..1971 (none of them a leap year).
Year(ts) == 1970 + (ts[1] \div (365 * 86400))

\* a < b on datetimes.
TimeLess(a, b) == a[1] < b[1] \/ (a[1] = b[1] /\ a[2] < b[2])

\* a - b, a timedelta (normalised: 0 <= microseconds < 1000000).
TimeDelta(a, b) ==
    IF a[2] - b[2] < 0
    THEN <<a[1] - b[1] - 1, a[2] - b[2] + 1000000>>
    ELSE <<a[1] - b[1], a[2] - b[2]>>

\* A faulty variant of WithinMergeGap: no lower bound, so that overlapping
\* tracks are merged too.
WithinMergeGapNoLowerBound(dt) == dt[1] < 3600

\* A faulty variant of WithinMergeGap: the threshold is half an hour.
WithinMergeGapHalfHour(dt) ==
    /\ dt[1] > 0 \/ (dt[1] = 0 /\ dt[2] > 0)
    /\ dt[1] < 1800

\* A faulty variant of WithinMergeGap: both bounds inclusive.
WithinMergeGapInclusive(dt) ==
    /\ dt[1] >= 0
    /\ dt[1] < 3600 \/ dt = <<3600, 0>>

\* 0 < dt.total_seconds() < 3600.
WithinMergeGap(dt) ==
    /\ dt[1] > 0 \/ (dt[1] = 0 /\ dt[2] > 0)
    /\ dt[1] < 3600

\* strftime("%Y-%m-%d %H:%M:%S"): the text names the whole second only.
Strftime(ts) == ts[1]

\* strptime(text, "%Y-%m-%d %H:%M:%S"): microsecond 0.
Strptime(text) == <<text, 0>>

\* json.dump of a float and float() of what json.load reads back.
FloatRepr(v) == v

FloatParse(text) == text

-----------------------------------------------------------------------------
(* The input files. A file's content is what the external parser (gpxpy)   *)
(* makes of it: a parse error, or time bounds, 2D length and the segments  *)
(* left after simplify().                                                  *)

Segments(slot, frac, n) == [k \in 1..n |-> << <<slot, 10 * frac + k>>, <<slot + 1, 10 * frac + k>> >>]

\* `halves` half hours after the start of hour `slot` (slot 1 starts at the
\* epoch), on the whole second (frac = 0) or half a second later (frac = 1).
SlotTime(slot, halves, frac) == <<(slot - 1) * 3600 + halves * 1800, frac * 500000>>

Recording(slot, halves, frac, len, n) ==
    [ok |-> TRUE, start |-> SlotTime(slot, 0, frac), end |-> SlotTime(slot, halves, frac),
     length |-> len, segments |-> Segments(slot, frac, n)]

\* Per hour slot, a recording on the whole second (one hour, 1000 m, one
\* segment) and one on the half second (half an hour, 600 m, two segments).
\* From the end of one to the start of another lie -5400 s to 5400 s, among
\* them exactly 0 s, 0.5 s, 3600 s and 3600.5 s. In the first slot also a
\* recording of an hour and a half, which ends after recordings that start
\* later than it.
RegularContents ==
    {Recording(s, 2, 0, 1000, 1) : s \in 1..MaxSlot}
        \cup {Recording(s, 1, 1, 600, 2) : s \in 1..MaxSlot}
        \cup {Recording(1, 3, 0, 1000, 1)}

\* An empty track, a track whose points carry no time, a recording of the
\* year before, and a file gpxpy cannot parse.
SpecialContents ==
    {Recording(1, 2, 0, 0, 1),
     [ok |-> TRUE, start |-> None, end |-> None, length |-> 1000,
      segments |-> Segments(0, 1, 1)],
     Recording(0, 2, 0, 1000, 1),
     [ok |-> FALSE, start |-> None, end |-> None, length |-> 0, segments |-> <<>>]}

Contents == RegularContents \cup SpecialContents

\* The directory: file k is named k and holds any content.
Directories ==
    UNION {[1..n -> Contents] : n \in 0..MaxFiles}

FileAt(dir, k) == [name |-> k, content |-> dir[k]]

Checksum(file) == file.content

-----------------------------------------------------------------------------
(* class Track. *)

NewTrack ==
    [file_names |-> <<>>, polylines |-> <<>>, start_time |-> None, end_time |-> None,
     length |-> 0, highlight |-> FALSE]

\* A cache file that is not JSON at all (empty or cut short).
NotJson ==
    [start |-> 0, end |-> 0, length |-> 0, segments |-> <<>>, bad |-> "json", bad_segment |-> 0]

\* Track.load_cache. `bad` names what is missing or malformed in the file:
\* "none", "json" (json.load fails), "start", "end", "length", "segments"
\* (the key is missing) or "point" (a point of segment bad_segment lacks a
\* key or holds a non-number). Returns the track as far as it was assigned.
load_cache(self, entry) ==
    IF entry.bad = "json" THEN [ok |-> FALSE, track |-> self]
    ELSE IF entry.bad = "start" THEN [ok |-> FALSE, track |-> self]
    ELSE LET t1 == [self EXCEPT !.start_time = Strptime(entry.start)] IN
    IF entry.bad = "end" THEN [ok |-> FALSE, track |-> t1]
    ELSE LET t2 == [t1 EXCEPT !.end_time = Strptime(entry.end)] IN
    IF entry.bad = "length" THEN [ok |-> FALSE, track |-> t2]
    ELSE LET t3 == [t2 EXCEPT !.length = FloatParse(entry.length), !.polylines = <<>>] IN
    IF entry.bad = "segments" THEN [ok |-> FALSE, track |-> t3]
    ELSE IF entry.bad = "point"
    THEN [ok |-> FALSE,
          track |-> [t3 EXCEPT !.polylines =
                        [k \in 1..(entry.bad_segment - 1) |->
                            [j \in 1..Len(entry.segments[k]) |->
                                <<FloatParse(entry.segments[k][j][1]),
                                  FloatParse(entry.segments[k][j][2])>>]]]]
    ELSE [ok |-> TRUE,
          track |-> [t3 EXCEPT !.polylines =
                        [k \in 1..Len(entry.segments) |->
                            [j \in 1..Len(entry.segments[k]) |->
                                <<FloatParse(entry.segments[k][j][1]),
                                  FloatParse(entry.segments[k][j][2])>>]]]]

\* The JSON text store_cache writes for a track whose times are set.
CacheData(self) ==
    [start |-> Strftime(self.start_time), end |-> Strftime(self.end_time),
     length |-> FloatRepr(self.length),
     segments |-> [k \in 1..Len(self.polylines) |->
                     [j \in 1..Len(self.polylines[k]) |->
                         <<FloatRepr(self.polylines[k][j][1]),
                           FloatRepr(self.polylines[k][j][2])>>]],
     bad |-> "none", bad_segment |-> 0]

\* Track.store_cache. `disk` is what the storage does: "ok"; "nofile"
\* (makedirs or open fails, nothing is written); "partial" (the write is cut
\* short). open(.., 'w') truncates the file before strftime is called, so a
\* track without times leaves an empty file behind.
store_cache(self, store, checksum, disk) ==
    IF disk = "nofile" THEN [ok |-> FALSE, cache |-> store]
    ELSE IF disk = "partial" \/ self.start_time = None \/ self.end_time = None
    THEN [ok |-> FALSE, cache |-> [c \in DOMAIN store \cup {checksum} |->
                                       IF c = checksum THEN NotJson ELSE store[c]]]
    ELSE [ok |-> TRUE, cache |-> [c \in DOMAIN store \cup {checksum} |->
                                      IF c = checksum THEN CacheData(self) ELSE store[c]]]

\* A faulty variant of load_gpx_no_cache: the cache file is opened for writing
\* before the file is parsed, so that a parse error leaves an empty cache file.
load_gpx_no_cacheOpeningFirst(self, file, store, disk) ==
    LET named == [self EXCEPT !.file_names = <<file.name>>] IN
    IF ~file.content.ok
    THEN [track |-> named,
          cache |-> [c \in DOMAIN store \cup {Checksum(file)} |->
                        IF c = Checksum(file) THEN NotJson ELSE store[c]],
          error |-> "parse", parsed |-> TRUE]
    ELSE LET loaded == [named EXCEPT !.start_time = file.content.start,
                                     !.end_time = file.content.end,
                                     !.length = file.content.length,
                                     !.polylines = named.polylines \o file.content.segments]
             stored == store_cache(loaded, store, Checksum(file), disk)
         IN  [track |-> loaded, cache |-> stored.cache,
              error |-> IF stored.ok THEN "none" ELSE "store", parsed |-> TRUE]

\* Track.load_gpx_no_cache. polylines is appended to, never reset.
load_gpx_no_cache(self, file, store, disk) ==
    LET named == [self EXCEPT !.file_names = <<file.name>>] IN
    IF ~file.content.ok
    THEN [track |-> named, cache |-> store, error |-> "parse", parsed |-> TRUE]
    ELSE LET loaded == [named EXCEPT !.start_time = file.content.start,
                                     !.end_time = file.content.end,
                                     !.length = file.content.length,
                                     !.polylines = named.polylines \o file.content.segments]
             stored == store_cache(loaded, store, Checksum(file), disk)
         IN  [track |-> loaded, cache |-> stored.cache,
              error |-> IF stored.ok THEN "none" ELSE "store", parsed |-> TRUE]

\* Track.load_gpx. `lines` are the lines it prints.
load_gpx(self, file, store, disk) ==
    IF Checksum(file) \in DOMAIN store
    THEN LET hit == load_cache(self, store[Checksum(file)]) IN
         IF hit.ok
         THEN [track |-> [hit.track EXCEPT !.file_names = <<file.name>>], cache |-> store,
               error |-> "none", parsed |-> FALSE, lines |-> <<"cached">>]
         ELSE [lines |-> <<"cached", "Failed to load cached track">>]
                  @@ load_gpx_no_cache(hit.track, file, store, disk)
    ELSE [lines |-> <<>>] @@ load_gpx_no_cache(self, file, store, disk)

\* Track.set_is_highlight.
set_is_highlight(self, b) == [self EXCEPT !.highlight = b]

\* A faulty variant of append: the session keeps its own end time.
appendKeepingEnd(self, other) ==
    [self EXCEPT !.polylines = self.polylines \o other.polylines,
                 !.length = self.length + other.length,
                 !.file_names = self.file_names \o other.file_names,
                 !.highlight = self.highlight \/ other.highlight]

\* Track.append.
append(self, other) ==
    [self EXCEPT !.end_time = other.end_time,
                 !.polylines = self.polylines \o other.polylines,
                 !.length = self.length + other.length,
                 !.file_names = self.file_names \o other.file_names,
                 !.highlight = self.highlight \/ other.highlight]

-----------------------------------------------------------------------------
(* load_tracks. *)

min_length == 1000

\* What the storage may do at the next write.
DiskOutcomes ==
    IF write_failures < MaxWriteFailures THEN {"ok", "nofile", "partial"} ELSE {"ok"}

\* A faulty variant of SkipReason: the minimum length is tested per file,
\* before the merge pass.
SkipReasonShort(track) ==
    IF track.length = 0 THEN "skipping empty track"
    ELSE IF track.start_time = None THEN "skipping track without start time"
    ELSE IF Year(track.start_time) # year THEN "skipping track with wrong year"
    ELSE IF track.length < min_length THEN "skipping short track"
    ELSE ""

\* A faulty variant of SkipReason: the year is not looked at.
SkipReasonAnyYear(track) ==
    IF track.length = 0 THEN "skipping empty track"
    ELSE IF track.start_time = None THEN "skipping track without start time"
    ELSE ""

\* The line load_tracks prints when it skips the track, "" when it keeps it.
SkipReason(track) ==
    IF track.length = 0 THEN "skipping empty track"
    ELSE IF track.start_time = None THEN "skipping track without start time"
    ELSE IF Year(track.start_time) # year THEN "skipping track with wrong year"
    ELSE ""

\* A faulty variant of SortByStart: a track goes before the tracks that start
\* at the same time (not a stable sort).
RECURSIVE SortByStartTiesFirst(_)
SortByStartTiesFirst(s) ==
    IF s = <<>> THEN <<>>
    ELSE LET head == SortByStartTiesFirst(Front(s))
             item == Last(s)
             keep == {k \in 1..Len(head) : TimeLess(head[k].start_time, item.start_time)}
             n == Cardinality(keep)
         IN  SubSeq(head, 1, n) \o <<item>> \o SubSeq(head, n + 1, Len(head))

\* sorted(tracks, key=start_time): each track goes behind the tracks that do
\* not start later (a stable sort).
RECURSIVE SortByStart(_)
SortByStart(s) ==
    IF s = <<>> THEN <<>>
    ELSE LET head == SortByStart(Front(s))
             item == Last(s)
             keep == {k \in 1..Len(head) : ~TimeLess(item.start_time, head[k].start_time)}
             n == Cardinality(keep)
         IN  SubSeq(head, 1, n) \o <<item>> \o SubSeq(head, n + 1, Len(head))

\* compute_grid has not been called.
GridIdle ==
    /\ count = 0
    /\ width = 0
    /\ height = 0
    /\ x = 0
    /\ min_waste = <<-1, 1>>
    /\ best_size = <<-1, 1>>
    /\ grid = <<>>

\* draw_track has not been called.
DrawIdle ==
    /\ tile_origin = <<>>
    /\ x_offset = <<0, 1>>
    /\ y_offset = <<0, 1>>
    /\ lines = <<>>
    /\ bounds = <<>>
    /\ scale = <<0, 1>>
    /\ scaled_lines = <<>>

\* No load_gpx call has been made.
LoadIdle ==
    /\ t = NewTrack
    /\ log = <<>>
    /\ parsed = FALSE

\* load_tracks has not started.
PipelineIdle ==
    /\ year = 1970
    /\ index = 0
    /\ tracks = <<>>
    /\ sorted_tracks = <<>>
    /\ merged_tracks = <<>>
    /\ merge_pos = 0
    /\ last_end_time = None
    /\ result = <<>>

\* load_tracks is called on a directory, the first file of which is to be
\* highlighted, the cache directory being empty.
Init ==
    /\ files \in Directories
    /\ highlight_filenames = {1}
    /\ cache = <<>>
    /\ write_failures = 0
    /\ writes = <<>>
    /\ pc = "load"
    /\ LoadIdle
    /\ PipelineIdle
    /\ history = <<>>
    /\ GridIdle
    /\ DrawIdle

\* One iteration of the loading loop (lines 123-141).
LoadFile ==
    /\ pc = "load"
    /\ index < Len(files)
    /\ \E disk \in DiskOutcomes :
        LET file == FileAt(files, index + 1)
            r == load_gpx(NewTrack, file, cache, disk)
            lit == IF file.name \in highlight_filenames
                   THEN set_is_highlight(r.track, TRUE) ELSE r.track
        IN  /\ (disk # "ok") => (r.parsed /\ r.error = "store")
            /\ cache' = r.cache
            /\ write_failures' = IF disk # "ok" THEN write_failures + 1 ELSE write_failures
            /\ writes' = Append(writes, disk)
            /\ parsed' = r.parsed
            /\ IF r.error # "none"
               THEN /\ t' = r.track
                    /\ log' = r.lines \o <<"error while parsing GPX file", r.error>>
                    /\ tracks' = tracks
               ELSE /\ t' = lit
                    /\ log' = IF SkipReason(lit) = "" THEN r.lines
                              ELSE r.lines \o <<SkipReason(lit)>>
                    /\ tracks' = IF SkipReason(lit) = "" THEN Append(tracks, lit) ELSE tracks
    /\ index' = index + 1
    /\ UNCHANGED <<files, year, highlight_filenames, pc, sorted_tracks, merged_tracks,
                   merge_pos, last_end_time, result, history, gridVars, drawVars>>

\* Line 144.
SortTracks ==
    /\ pc = "load"
    /\ index = Len(files)
    /\ sorted_tracks' = SortByStart(tracks)
    /\ pc' = "merge"
    /\ UNCHANGED <<files, year, highlight_filenames, cacheVars, index, loadVars, tracks,
                   merged_tracks, merge_pos, last_end_time, result, history, gridVars, drawVars>>

\* One iteration of the merge loop (lines 149-159).
MergeStep ==
    /\ pc = "merge"
    /\ merge_pos < Len(sorted_tracks)
    /\ LET track == sorted_tracks[merge_pos + 1] IN
        /\ merged_tracks' =
              IF last_end_time = None THEN Append(merged_tracks, track)
              ELSE IF WithinMergeGap(TimeDelta(track.start_time, last_end_time))
              THEN [merged_tracks EXCEPT ![Len(merged_tracks)] = append(@, track)]
              ELSE Append(merged_tracks, track)
        /\ last_end_time' = track.end_time
    /\ merge_pos' = merge_pos + 1
    /\ UNCHANGED <<files, year, highlight_filenames, cacheVars, pc, index, loadVars, tracks,
                   sorted_tracks, result, history, gridVars, drawVars>>

\* Line 162.
FilterShort ==
    /\ pc = "merge"
    /\ merge_pos = Len(sorted_tracks)
    /\ result' = SelectSeq(merged_tracks, LAMBDA s : s.length >= min_length)
    /\ pc' = "done"
    /\ UNCHANGED <<files, year, highlight_filenames, cacheVars, index, loadVars, tracks,
                   sorted_tracks, merged_tracks, merge_pos, last_end_time, history, gridVars, drawVars>>

Next ==
    \/ LoadFile
    \/ SortTracks
    \/ MergeStep
    \/ FilterShort

Spec == Init /\ [][Next]_vars

-----------------------------------------------------------------------------
(* load_tracks as a function of the directory listing and of what the      *)
(* storage does at each file, the cache directory being empty at first.    *)

\* The loading loop (lines 123-141) over the listing fs; plan[k] is what the
\* storage does while file fs[k] is loaded.
RECURSIVE LoadAll(_, _)
LoadAll(fs, plan) ==
    IF fs = <<>> THEN [tracks |-> <<>>, cache |-> <<>>]
    ELSE LET before == LoadAll(Front(fs), Front(plan))
             file == Last(fs)
             r == load_gpx(NewTrack, file, before.cache, Last(plan))
             lit == IF file.name \in highlight_filenames
                    THEN set_is_highlight(r.track, TRUE) ELSE r.track
         IN  [tracks |-> IF r.error = "none" /\ SkipReason(lit) = ""
                         THEN Append(before.tracks, lit) ELSE before.tracks,
              cache |-> r.cache]

\* The merge loop (lines 146-159) over the sorted tracks.
RECURSIVE MergeAll(_)
MergeAll(sorted) ==
    IF sorted = <<>> THEN <<>>
    ELSE LET before == MergeAll(Front(sorted))
             track == Last(sorted)
         IN  IF Len(sorted) = 1 \/ sorted[Len(sorted) - 1].end_time = None
             THEN Append(before, track)
             ELSE IF WithinMergeGap(TimeDelta(track.start_time,
                                              sorted[Len(sorted) - 1].end_time))
             THEN [before EXCEPT ![Len(before)] = append(@, track)]
             ELSE Append(before, track)

\* load_tracks (lines 118-162): what it returns and the cache it leaves.
load_tracks(fs, plan) ==
    LET loaded == LoadAll(fs, plan) IN
        [result |-> SelectSeq(MergeAll(SortByStart(loaded.tracks)),
                              LAMBDA s : s.length >= min_length),
         cache |-> loaded.cache]

-----------------------------------------------------------------------------
(* Properties of load_tracks (checked under Spec).                         *)

RECURSIVE Flatten(_)
Flatten(ss) == IF ss = <<>> THEN <<>> ELSE Head(ss) \o Flatten(Tail(ss))

RECURSIVE SumOf(_)
SumOf(ns) == IF ns = <<>> THEN 0 ELSE Head(ns) + SumOf(Tail(ns))

\* start lies strictly after previous_end and strictly less than one hour after it.
GapUnderOneHour(previous_end, start) ==
    /\ TimeLess(previous_end, start)
    /\ TimeLess(start, <<previous_end[1] + 3600, previous_end[2]>>)

\* The sessions the merge pass has built, and after the pass the returned ones.
Sessions == Range(merged_tracks) \cup Range(result)

\* Track k of sorted_tracks opens a session of merged_tracks.
OpensSession(k) ==
    \E s \in 1..Len(merged_tracks) :
        merged_tracks[s].file_names[1] = sorted_tracks[k].file_names[1]

\* Track k of sorted_tracks was merged into the session track k - 1 belongs to.
JoinsPrevious(k) ==
    \E s \in 1..Len(merged_tracks) :
        \E j \in 2..Len(merged_tracks[s].file_names) :
            /\ merged_tracks[s].file_names[j] = sorted_tracks[k].file_names[1]
            /\ merged_tracks[s].file_names[j - 1] = sorted_tracks[k - 1].file_names[1]

\* C1: in the merge pass every track but the first is merged into the
\* immediately preceding session if and only if dt, its start time minus the
\* previous track's own end time, satisfies 0 < dt < 3600 s; otherwise (dt <= 0
\* or dt >= 3600, the bounds 0 and 3600 included) it starts a new session.
C1_MergeThreshold ==
    \A k \in 1..merge_pos :
        IF k = 1 THEN OpensSession(k) /\ ~JoinsPrevious(k)
        ELSE IF GapUnderOneHour(sorted_tracks[k - 1].end_time, sorted_tracks[k].start_time)
        THEN JoinsPrevious(k) /\ ~OpensSession(k)
        ELSE OpensSession(k) /\ ~JoinsPrevious(k)

\* A finished merge pass with a gap of exactly 0 s (new session) followed by
\* a gap of half a second (merge).
C1_Witness ==
    /\ pc = "done"
    /\ merge_pos = 3
    /\ TimeDelta(sorted_tracks[2].start_time, sorted_tracks[1].end_time) = <<0, 0>>
    /\ TimeDelta(sorted_tracks[3].start_time, sorted_tracks[2].end_time) = <<0, 500000>>
    /\ Len(merged_tracks) = 2
    /\ Len(merged_tracks[2].file_names) = 2

\* The file passes the three filters of the loading loop.
PassesFilters(content) ==
    /\ content.ok
    /\ content.length # 0
    /\ content.start # None
    /\ Year(content.start) = year

\* C2: a file whose track has length 0, no start time or a start time in
\* another year than the requested one contributes to no session: no session
\* lists its name, holds its polylines or counts its length.
C2_FilterCorrectness ==
    \A session \in Range(tracks) \cup Sessions :
        /\ \A k \in 1..Len(files) :
               ~PassesFilters(files[k]) => k \notin Range(session.file_names)
        /\ \A line \in Range(session.polylines) :
               \E name \in Range(session.file_names) :
                   PassesFilters(files[name]) /\ line \in Range(files[name].segments)
        /\ session.length =
               SumOf([j \in 1..Len(session.file_names) |-> files[session.file_names[j]].length])

\* A run that returns a session although the directory also holds an empty
\* track and a recording of another year.
C2_Witness ==
    /\ pc = "done"
    /\ Len(result) = 1
    /\ \E k \in 1..Len(files) : files[k].ok /\ files[k].length = 0
    /\ \E k \in 1..Len(files) :
           files[k].ok /\ files[k].start # None /\ Year(files[k].start) # year

\* The session is sorted_tracks[a..b] combined.
CombinesRun(session, a, b) ==
    LET run == SubSeq(sorted_tracks, a, b) IN
        /\ session.file_names = Flatten([k \in 1..Len(run) |-> run[k].file_names])
        /\ session.polylines = Flatten([k \in 1..Len(run) |-> run[k].polylines])
        /\ session.length = SumOf([k \in 1..Len(run) |-> run[k].length])
        /\ session.highlight = (\E k \in 1..Len(run) : run[k].highlight)
        /\ session.start_time = run[1].start_time
        /\ session.end_time = run[Len(run)].end_time
        /\ \A k \in 2..Len(run) : GapUnderOneHour(run[k - 1].end_time, run[k].start_time)

\* C7: every session is the combination of a run of consecutively merged
\* tracks: file names and polylines concatenated in ascending start order,
\* the lengths summed, the highlight flags or-ed, the start time of the first
\* and the end time of the last contributing track.
C7_SessionIsRun ==
    \A session \in Sessions :
        \E a \in 1..Len(sorted_tracks) :
            \E b \in a..Len(sorted_tracks) : CombinesRun(session, a, b)

\* Three files returned as two sessions, the first combining two tracks of
\* which only the second is highlighted.
C7_Witness ==
    /\ pc = "done"
    /\ Len(result) = 2
    /\ Len(result[1].file_names) = 2
    /\ result[1].highlight
    /\ ~sorted_tracks[1].highlight
    /\ Len(result[2].file_names) = 1

\* C9: a failure to write the cache entry after a successful parse does not
\* lose the file: its track is still loaded and, passing the filters, is
\* appended to tracks.
C9_WriteFailureNonFatal ==
    (/\ pc = "load"
     /\ index > 0
     /\ "store" \in Range(log)
     /\ PassesFilters(files[index]))
        => (tracks # <<>> /\ Last(tracks).file_names = <<index>>)

\* The directory listing: the files with their names.
Listing == [k \in 1..Len(files) |-> FileAt(files, k)]

\* The sequence without its k-th element.
RemoveAt(s, k) == SubSeq(s, 1, k - 1) \o SubSeq(s, k + 1, Len(s))

\* C11: a file that cannot be parsed does not abort load_tracks and leaves
\* the other files unaffected: the run reaches its end, and what it returns
\* (and the cache it leaves) is what load_tracks returns (and leaves) for the
\* same directory without that file, the storage behaving the same.
C11_ParseErrorIsolated ==
    /\ (pc = "load" /\ index > 0 /\ ~files[index].ok) =>
           (/\ "error while parsing GPX file" \in Range(log)
            /\ \A session \in Range(tracks) : index \notin Range(session.file_names))
    /\ pc = "done" =>
           \A k \in 1..Len(files) :
               ~files[k].ok =>
                   LET without == load_tracks(RemoveAt(Listing, k), RemoveAt(writes, k)) IN
                       /\ result = without.result
                       /\ cache = without.cache

\* A run over three files the second of which cannot be parsed, returning
\* one session that combines the first and the third.
C11_Witness ==
    /\ pc = "done"
    /\ Len(files) = 3
    /\ ~files[2].ok
    /\ Len(result) = 1
    /\ result[1].file_names = <<1, 3>>

\* The names of the files the sessions combine, in the sessions' order.
NamesIn(sessions) == Flatten([k \in 1..Len(sessions) |-> sessions[k].file_names])

\* C12: every returned session has length >= 1000, and the minimum length is
\* tested on the merged sessions only: a file that passes the three loading
\* filters enters tracks whatever its length, every track takes part in the
\* merge scan (it is in a session and sets last_end_time), and the result is
\* exactly the merged sessions whose summed length is >= 1000.
C12_MinLengthAfterMerge ==
    /\ (/\ pc = "load"
         /\ index > 0
         /\ "error while parsing GPX file" \notin Range(log)
         /\ PassesFilters(files[index]))
            => (tracks # <<>> /\ Last(tracks).file_names = <<index>>)
    /\ pc \in {"merge", "done"} =>
           /\ Len(sorted_tracks) = Len(tracks)
           /\ NamesIn(merged_tracks) = NamesIn(SubSeq(sorted_tracks, 1, merge_pos))
           /\ merge_pos > 0 => last_end_time = sorted_tracks[merge_pos].end_time
    /\ pc = "done" =>
           /\ \A session \in Range(result) :
                  session.length >= 1000 /\ session \in Range(merged_tracks)
           /\ \A session \in Range(merged_tracks) :
                  session.length >= 1000 => session \in Range(result)

\* A returned session that combines two files each of which is shorter than
\* 1000 m.
C12_Witness ==
    /\ pc = "done"
    /\ \E session \in Range(result) :
           /\ Len(session.file_names) = 2
           /\ \A name \in Range(session.file_names) : files[name].length < 1000

\* The sessions are in non-decreasing order of start time, and of two that
\* start at the same time the one whose first file was enumerated first
\* comes first (a file's name is its place in the enumeration).
InStartOrder(sessions) ==
    \A i \in 1..Len(sessions) :
        \A j \in (i + 1)..Len(sessions) :
            /\ ~TimeLess(sessions[j].start_time, sessions[i].start_time)
            /\ sessions[i].start_time = sessions[j].start_time
                   => sessions[i].file_names[1] < sessions[j].file_names[1]

\* C15: the returned sessions are in non-decreasing start-time order, those
\* with equal start time in file-enumeration order: the sort is stable, and
\* neither the merge pass nor the length filter reorders.
C15_StartOrder ==
    /\ InStartOrder(sorted_tracks)
    /\ InStartOrder(merged_tracks)
    /\ InStartOrder(result)

\* Three sessions returned: two that start at the same time, and after them
\* the one of the file enumerated first.
C15_Witness ==
    /\ pc = "done"
    /\ Len(result) = 3
    /\ result[1].start_time = result[2].start_time
    /\ result[1].file_names = <<2>>
    /\ result[2].file_names = <<3>>
    /\ result[3].file_names = <<1>>

\* No two neighbours of the list lie more than 0 s and less than 3600 s apart
\* (start of the later one minus end of the earlier one).
NoShortGap(sessions) ==
    \A k \in 1..(Len(sessions) - 1) :
        ~GapUnderOneHour(sessions[k].end_time, sessions[k + 1].start_time)

\* C16 as stated: of the returned sessions no two neighbours are left
\* unmerged with a gap strictly between 0 s and 3600 s.
C16_NoShortGapInOutput == NoShortGap(result)

\* C16, amended: of the sessions the merge pass builds, before the length
\* filter removes the short ones, no two neighbours are left unmerged with a
\* gap strictly between 0 s and 3600 s.
C16_NoShortGapAfterMerge == NoShortGap(merged_tracks)

\* The merge pass has built three sessions, the filter has removed the middle
\* one, and the two returned sessions lie less than an hour apart.
C16_Witness ==
    /\ pc = "done"
    /\ Len(merged_tracks) = 3
    /\ result = <<merged_tracks[1], merged_tracks[3]>>
    /\ GapUnderOneHour(result[1].end_time, result[2].start_time)

\* The loaded track of the file.
TrackOf(name) == CHOOSE track \in Range(sorted_tracks) : track.file_names = <<name>>

\* C18: if no loaded track ends before it starts, then no session does, at
\* any step of the merge pass or in the result, and no merge lowers a
\* session's end time: the end times of the tracks merged into a session,
\* which the session takes on one after the other, never decrease.
C18_EndNeverDecreases ==
    (\A track \in Range(tracks) \cup Range(sorted_tracks) :
         ~TimeLess(track.end_time, track.start_time))
        => \A session \in Sessions :
               /\ ~TimeLess(session.end_time, session.start_time)
               /\ session.end_time = TrackOf(Last(session.file_names)).end_time
               /\ \A j \in 2..Len(session.file_names) :
                      ~TimeLess(TrackOf(session.file_names[j]).end_time,
                                TrackOf(session.file_names[j - 1]).end_time)

\* A returned session into which two tracks were merged, its end time rising
\* with each merge.
C18_Witness ==
    /\ pc = "done"
    /\ \E session \in Range(result) :
           /\ Len(session.file_names) = 3
           /\ \A j \in 2..3 :
                  TimeLess(TrackOf(session.file_names[j - 1]).end_time,
                           TrackOf(session.file_names[j]).end_time)

-----------------------------------------------------------------------------
(* The cache under repeated use: load_gpx and clear_cache called in any    *)
(* order on one file, and the cache file damaged from outside.             *)

\* One cache operation, as history keeps it.
LoadRecord(r) ==
    [op |-> "load", track |-> r.track, error |-> r.error, parsed |-> r.parsed,
     lines |-> r.lines]

OtherRecord(name) ==
    [op |-> name, track |-> NewTrack, error |-> "none", parsed |-> FALSE, lines |-> <<>>]

\* Ways a readable cache file can be damaged.
Damages(entry) ==
    {[entry EXCEPT !.bad = b] : b \in {"json", "start", "end", "length", "segments"}}
        \cup {[entry EXCEPT !.bad = "point", !.bad_segment = k] : k \in 1..Len(entry.segments)}

CacheInit ==
    /\ files \in [1..1 -> Contents]
    /\ highlight_filenames = {}
    /\ cache = <<>>
    /\ write_failures = 0
    /\ writes = <<>>
    /\ pc = "cache"
    /\ LoadIdle
    /\ PipelineIdle
    /\ history = <<>>
    /\ GridIdle
    /\ DrawIdle

\* Track().load_gpx(file_name) (lines 27-41).
CacheLoad ==
    /\ pc = "cache"
    /\ Len(history) < MaxOps
    /\ \E disk \in DiskOutcomes :
        LET r == load_gpx(NewTrack, FileAt(files, 1), cache, disk) IN
            /\ (disk # "ok") => (r.parsed /\ r.error = "store")
            /\ cache' = r.cache
            /\ write_failures' = IF disk # "ok" THEN write_failures + 1 ELSE write_failures
            /\ writes' = Append(writes, disk)
            /\ t' = r.track
            /\ log' = r.lines
            /\ parsed' = r.parsed
            /\ history' = Append(history, LoadRecord(r))
    /\ UNCHANGED <<files, pc, pipelineVars, gridVars, drawVars>>

\* clear_cache() (lines 98-105): rmtree removes the directory, or fails with
\* an OSError that is printed and leaves the files in place.
CacheClear ==
    /\ pc = "cache"
    /\ Len(history) < MaxOps
    /\ cache # <<>>
    /\ \E removed \in BOOLEAN :
        cache' = IF removed THEN <<>> ELSE cache
    /\ history' = Append(history, OtherRecord("clear"))
    /\ UNCHANGED <<files, pc, write_failures, writes, loadVars, pipelineVars, gridVars, drawVars>>

\* The environment damages a readable cache file.
CacheDamage ==
    /\ pc = "cache"
    /\ Len(history) < MaxOps
    /\ \E c \in DOMAIN cache :
        /\ cache[c].bad = "none"
        /\ \E damaged \in Damages(cache[c]) :
            cache' = [cache EXCEPT ![c] = damaged]
    /\ history' = Append(history, OtherRecord("damage"))
    /\ UNCHANGED <<files, pc, write_failures, writes, loadVars, pipelineVars, gridVars, drawVars>>

CacheNext ==
    \/ CacheLoad
    \/ CacheClear
    \/ CacheDamage

CacheSpec == CacheInit /\ [][CacheNext]_vars

-----------------------------------------------------------------------------
(* Properties of the cache (checked under CacheSpec).                      *)

\* The two tracks agree in all that a cache entry holds.
SameGeometry(a, b) ==
    /\ a.start_time = b.start_time
    /\ a.end_time = b.end_time
    /\ a.length = b.length
    /\ a.polylines = b.polylines

\* Operation i parsed the file and stored the track (put), and operation
\* i + 1 read the entry back (get).
PutThenGet(i) ==
    /\ history[i].op = "load"
    /\ history[i].parsed
    /\ history[i].error = "none"
    /\ history[i + 1].op = "load"
    /\ ~history[i + 1].parsed

\* C3: store_cache followed by load_cache on the same checksum file yields a
\* track with the same start time, end time, length and polylines.
C3_CacheRoundTrip ==
    \A i \in 1..(Len(history) - 1) :
        PutThenGet(i) => SameGeometry(history[i].track, history[i + 1].track)

\* C4: loading the same unchanged file twice in a row, the cache holding no
\* entry for it at first, produces identical tracks, and only the first load
\* invokes the parser: the second one is a cache hit.
C4_IdempotentLoad ==
    \A i \in 1..(Len(history) - 1) :
        (/\ history[i].op = "load"
         /\ history[i].lines = <<>>
         /\ history[i].error = "none"
         /\ history[i + 1].op = "load")
            => /\ history[i + 1].track = history[i].track
               /\ history[i].parsed
               /\ ~history[i + 1].parsed
               /\ history[i + 1].lines = <<"cached">>

\* The track a load of the file produces when the cache holds no entry for it.
UncachedTrack(file) ==
    [file_names |-> <<file.name>>, polylines |-> file.content.segments,
     start_time |-> file.content.start, end_time |-> file.content.end,
     length |-> file.content.length, highlight |-> FALSE]

\* C8: a cache entry that fails to deserialize, whatever is missing or
\* malformed in it and wherever, is treated as a miss: the load produces the
\* track that a load without any cache entry produces.
C8_CorruptEntryIsMiss ==
    \A i \in 1..Len(history) :
        (/\ history[i].op = "load"
         /\ "Failed to load cached track" \in Range(history[i].lines))
            => history[i].track = UncachedTrack(FileAt(files, 1))

\* C14: whenever the cache holds a readable entry for a checksum, the entry
\* reads back as the parse result of the file content with that checksum:
\* its start time, end time, length and polylines.
C14_EntryMatchesParse ==
    \A c \in DOMAIN cache :
        cache[c].bad = "none" =>
            LET entry == load_cache(NewTrack, cache[c]).track IN
                /\ entry.start_time = c.start
                /\ entry.end_time = c.end
                /\ entry.length = c.length
                /\ entry.polylines = c.segments

-----------------------------------------------------------------------------
(* compute_grid. Fractions <<n, d>>, d > 0, stand for Python's floats.     *)

RInt(n) == <<n, 1>>

RLess(a, b) == a[1] * b[2] < b[1] * a[2]

RMul(a, b) == <<a[1] * b[1], a[2] * b[2]>>

RSub(a, b) == <<a[1] * b[2] - b[1] * a[2], a[2] * b[2]>>

\* a / b for b # 0.
RDiv(a, b) ==
    IF b[1] > 0 THEN <<a[1] * b[2], a[2] * b[1]>>
    ELSE <<-(a[1] * b[2]), -(a[2] * b[1])>>

\* math.floor(a).
RFloor(a) == a[1] \div a[2]

\* width*height - count*s*s for s = width/column (lines 240-241).
Waste(column) ==
    RSub(RInt(width * height), RMul(RInt(count), RMul(<<width, column>>, <<width, column>>)))

GridInit ==
    /\ files = <<>>
    /\ highlight_filenames = {}
    /\ cache = <<>>
    /\ write_failures = 0
    /\ writes = <<>>
    /\ pc = "grid"
    /\ LoadIdle
    /\ PipelineIdle
    /\ history = <<>>
    /\ count \in 1..MaxCount
    /\ width \in 2..MaxWidth
    /\ height \in 2..MaxHeight
    /\ x = 0
    /\ min_waste = RInt(-1)
    /\ best_size = RInt(-1)
    /\ grid = <<>>
    /\ DrawIdle

\* One iteration of the scan (lines 239-246).
GridScan ==
    /\ pc = "grid"
    /\ x + 1 < width
    /\ x' = x + 1
    /\ LET s == <<width, x + 1>>
           waste == Waste(x + 1)
           better == /\ ~RLess(waste, RInt(0))
                     /\ RLess(min_waste, RInt(0)) \/ RLess(waste, min_waste)
       IN  /\ min_waste' = IF better THEN waste ELSE min_waste
           /\ best_size' = IF better THEN s ELSE best_size
    /\ UNCHANGED <<files, pc, loadVars, cacheVars, pipelineVars, history, count, width,
                   height, grid, drawVars>>

\* Lines 247-253. A count_y of 0 would raise ZeroDivisionError.
GridReturn ==
    /\ pc = "grid"
    /\ x + 1 >= width
    /\ LET count_x == RDiv(RInt(width), best_size)
           quotient == RFloor(RDiv(RInt(count), count_x))
           remainder == RSub(RInt(count), RMul(count_x, RInt(quotient)))
           count_y == IF RLess(RInt(0), remainder) THEN quotient + 1 ELSE quotient
       IN  IF count_y = 0
           THEN /\ pc' = "grid_error"
                /\ grid' = grid
           ELSE /\ pc' = "grid_returned"
                /\ grid' = [best_size |-> best_size, count_x |-> count_x, count_y |-> count_y,
                            spacing_y |-> RDiv(RSub(RInt(height),
                                                    RMul(RInt(count_y), best_size)),
                                               RInt(count_y))]
    /\ UNCHANGED <<files, loadVars, cacheVars, pipelineVars, history, count, width, height,
                   x, min_waste, best_size, drawVars>>

GridNext ==
    \/ GridScan
    \/ GridReturn

GridSpec == GridInit /\ [][GridNext]_vars

-----------------------------------------------------------------------------
(* Properties of compute_grid (checked under GridSpec).                    *)

REq(a, b) == a[1] * b[2] = b[1] * a[2]

\* Column count `column` gives a tile size that does not overflow the rectangle.
NonNegativeWaste(column) == ~RLess(Waste(column), RInt(0))

\* C5: the returned tile size s satisfies count * s^2 <= width * height.
C5_GridNonOverflow ==
    pc = "grid_returned"
        => ~RLess(RInt(width * height),
                  RMul(RInt(count), RMul(grid.best_size, grid.best_size)))

\* C6: the returned tile size is width / column for a column count in
\* 1..width-1 such that no other column count of that range yields a strictly
\* lower non-negative waste.
C6_GridMinimality ==
    pc = "grid_returned"
        => \E column \in 1..(width - 1) :
               /\ REq(grid.best_size, <<width, column>>)
               /\ \A other \in 1..(width - 1) :
                      ~(NonNegativeWaste(other) /\ RLess(Waste(other), Waste(column)))

\* C10: when no column count in 1..width-1 has non-negative waste,
\* compute_grid reports an error and returns no grid.
C10_NoCandidateIsError ==
    (\A column \in 1..(width - 1) : ~NonNegativeWaste(column))
        => pc # "grid_returned"

\* C13: when some column count has non-negative waste, the returned grid fits
\* into the rectangle: count_x * best_size <= width and count_y * best_size <=
\* height, that is, spacing_y >= 0.
C13_GridFits ==
    (/\ pc = "grid_returned"
     /\ \E column \in 1..(width - 1) : NonNegativeWaste(column))
        => /\ ~RLess(RInt(width), RMul(grid.count_x, grid.best_size))
           /\ ~RLess(RInt(height), RMul(RInt(grid.count_y), grid.best_size))
           /\ ~RLess(grid.spacing_y, RInt(0))

-----------------------------------------------------------------------------
(* draw_track. Coordinates, scale and offsets are fractions in lowest      *)
(* terms.                                                                  *)

RECURSIVE Gcd(_, _)
Gcd(a, b) == IF b = 0 THEN a ELSE Gcd(b, a % b)

\* The fraction in lowest terms.
RNorm(a) ==
    LET g == Gcd(IF a[1] < 0 THEN -a[1] ELSE a[1], a[2]) IN <<a[1] \div g, a[2] \div g>>

RAdd(a, b) == <<a[1] * b[2] + b[1] * a[2], a[2] * b[2]>>

\* 0.5 - log(tan(pi/4 * (1 + lat/90))) / pi to three decimals, for the
\* latitudes of the model.
MercatorY(lat) ==
    CASE lat = 0 -> <<500, 1000>>
      [] lat = 30 -> <<325, 1000>>
      [] lat = 60 -> <<81, 1000>>

\* latlng2xy (lines 166-167).
latlng2xy(lat, lng) == <<RNorm(RAdd(<<lng, 180>>, RInt(1))), RNorm(MercatorY(lat))>>

\* The least and the greatest of a non-empty set of fractions in lowest terms.
RMin(S) == CHOOSE a \in S : \A b \in S : ~RLess(b, a)

RMax(S) == CHOOSE a \in S : \A b \in S : ~RLess(a, b)

\* compute_bounds (lines 170-187).
compute_bounds(polylines) ==
    LET points == Range(Flatten(polylines)) IN
        IF points = {} THEN <<None, None, None, None>>
        ELSE <<RMin({p[1] : p \in points}), RMin({p[2] : p \in points}),
               RMax({p[1] : p \in points}), RMax({p[2] : p \in points})>>

\* The (lat, lng) points of the model, and the polylines of a track: one
\* line of one or two points, or two lines of one point each.
TrackPoints == {<<30 * i, 18 * j>> : i, j \in 0..MaxCoord}

TrackPolylines ==
    {<< <<p>> >> : p \in TrackPoints}
        \cup {<< <<p, q>> >> : p, q \in TrackPoints}
        \cup {<< <<p>>, <<q>> >> : p, q \in TrackPoints}

\* draw_track is called for a track with at least one point and a tile of
\* positive width and height.
DrawInit ==
    /\ files = <<>>
    /\ highlight_filenames = {}
    /\ cache = <<>>
    /\ write_failures = 0
    /\ writes = <<>>
    /\ pc = "draw"
    /\ t \in {[NewTrack EXCEPT !.polylines = p] : p \in TrackPolylines}
    /\ log = <<>>
    /\ parsed = FALSE
    /\ PipelineIdle
    /\ history = <<>>
    /\ count = 0
    /\ width \in 1..MaxTile
    /\ height \in 1..MaxTile
    /\ x = 0
    /\ min_waste = RInt(-1)
    /\ best_size = RInt(-1)
    /\ grid = <<>>
    /\ x_offset \in {RInt(k) : k \in 0..MaxTile}
    /\ y_offset \in {RInt(k) : k \in 0..MaxTile}
    /\ tile_origin = <<x_offset, y_offset>>
    /\ lines = <<>>
    /\ bounds = <<>>
    /\ scale = RInt(0)
    /\ scaled_lines = <<>>

\* Lines 191-197: the projection of the track's polylines and its bounds.
DrawProject ==
    /\ pc = "draw"
    /\ lines' = [k \in 1..Len(t.polylines) |->
                    [j \in 1..Len(t.polylines[k]) |->
                        latlng2xy(t.polylines[k][j][1], t.polylines[k][j][2])]]
    /\ bounds' = compute_bounds(lines')
    /\ pc' = "draw_scale"
    /\ UNCHANGED <<files, loadVars, cacheVars, pipelineVars, history, gridVars, tile_origin,
                   x_offset, y_offset, scale, scaled_lines>>

\* Lines 198-208: d_x, d_y, the scale and the offsets. width/d_x and d_x/d_y
\* raise ZeroDivisionError when the divisor is 0.
DrawScale ==
    /\ pc = "draw_scale"
    /\ LET d_x == RNorm(RSub(bounds[3], bounds[1]))
           d_y == RNorm(RSub(bounds[4], bounds[2]))
       IN  IF d_x[1] = 0 \/ d_y[1] = 0
           THEN /\ pc' = "draw_error"
                /\ UNCHANGED <<x_offset, y_offset, scale>>
           ELSE LET chosen == IF RLess(RDiv(d_x, d_y), <<width, height>>)
                              THEN RNorm(RDiv(RInt(height), d_y))
                              ELSE RNorm(RDiv(RInt(width), d_x))
                    half == <<1, 2>>
                IN  /\ scale' = chosen
                    /\ x_offset' = RNorm(RAdd(x_offset,
                                              RSub(RMul(half, RInt(width)),
                                                   RNorm(RMul(RMul(half, chosen), d_x)))))
                    /\ y_offset' = RNorm(RAdd(y_offset,
                                              RSub(RMul(half, RInt(height)),
                                                   RNorm(RMul(RMul(half, chosen), d_y)))))
                    /\ pc' = "draw_points"
    /\ UNCHANGED <<files, loadVars, cacheVars, pipelineVars, history, gridVars, tile_origin,
                   lines, bounds, scaled_lines>>

\* Lines 210-217: the scaled points.
DrawPoints ==
    /\ pc = "draw_points"
    /\ scaled_lines' =
           [k \in 1..Len(lines) |->
               [j \in 1..Len(lines[k]) |->
                   <<RNorm(RAdd(x_offset, RNorm(RMul(scale, RSub(lines[k][j][1], bounds[1]))))),
                     RNorm(RAdd(y_offset, RNorm(RMul(scale, RSub(lines[k][j][2], bounds[2])))))>>]]
    /\ pc' = "drawn"
    /\ UNCHANGED <<files, loadVars, cacheVars, pipelineVars, history, gridVars, tile_origin,
                   x_offset, y_offset, lines, bounds, scale>>

DrawNext ==
    \/ DrawProject
    \/ DrawScale
    \/ DrawPoints

DrawSpec == DrawInit /\ [][DrawNext]_vars

-----------------------------------------------------------------------------
(* Properties of draw_track (checked under DrawSpec).                      *)

\* The point lies in the rectangle [left, left + width] x [top, top + height].
InTile(point, left, top) ==
    /\ ~RLess(point[1], left)
    /\ ~RLess(RAdd(left, RInt(width)), point[1])
    /\ ~RLess(point[2], top)
    /\ ~RLess(RAdd(top, RInt(height)), point[2])

\* C17: for a track with at least one point and a tile of positive width and
\* height, draw_track draws the track (also when its bounds have zero width
\* or zero height): the scale is the lesser of width / d_x and height / d_y,
\* and every scaled point lies in the tile the caller named.
C17_TrackFitsTile ==
    /\ pc # "draw_error"
    /\ pc = "drawn" =>
           LET d_x == RSub(bounds[3], bounds[1])
               d_y == RSub(bounds[4], bounds[2])
           IN  /\ ~RLess(RDiv(RInt(width), d_x), scale)
               /\ ~RLess(RDiv(RInt(height), d_y), scale)
               /\ REq(scale, RDiv(RInt(width), d_x)) \/ REq(scale, RDiv(RInt(height), d_y))
               /\ \A point \in Range(Flatten(scaled_lines)) :
                      InTile(point, tile_origin[1], tile_origin[2])

====
